---- MODULE Spec2Model ----
(***************************************************************************)
(* Model of the order-creation transaction of product-api.                 *)
(*                                                                         *)
(* OrderService.CreateOrder (internal/service/order.go) drives one         *)
(* PostgreSQL transaction through the product and order repositories.      *)
(* Every database round trip of a call is one action; the local            *)
(* computation between two round trips belongs to the action of the round  *)
(* trip that precedes it.  The database is modelled at READ COMMITTED:     *)
(* committed tables, one private write set per open transaction, and one   *)
(* exclusive row lock per product row (SELECT ... FOR UPDATE).             *)
(***************************************************************************)
EXTENDS Integers, Sequences, FiniteSets, TLC

VARIABLES
    products,     \* committed table products: id -> row
    orders,       \* committed table orders (set of header rows)
    order_items,  \* committed table order_items (set of item rows)
    lock,         \* row lock of every product row: holder transaction or NoCall
    txState,      \* per call: state of its pgx transaction
    txWrites,     \* per call: uncommitted quantity updates, id -> quantity
    txOrders,     \* per call: uncommitted rows inserted into orders
    txItems,      \* per call: uncommitted rows inserted into order_items
    req,          \* per call: the arguments (userID, items) of CreateOrder
    pc,           \* per call: position inside CreateOrder
    idx,          \* per call: index of the item the range loop is at
    err,          \* per call: the function-level variable err (order.go:56)
    product,      \* per call: the loop variable product (order.go:79)
    order,        \* per call: the local *domain.Order (order.go:70)
    totalAmount,  \* per call: the local totalAmount (order.go:69)
    ret,          \* per call: the values CreateOrder returns
    trace,        \* per call: the database calls it has issued, in order
    logged        \* per call: rollback errors passed to logger.Error

VARIABLES
    rd,           \* the OrderRepository.FindByID call under way, if any
    found         \* per order id: what the latest FindByID of it returned

VARIABLES
    http,         \* per call: the HTTP request that carries it, if any
    body          \* per call: the items of the request body, once decoded

VARIABLES
    users,        \* committed rows of table users
    reg,          \* per Register call: its position, arguments and result
    login         \* per Login call: its position, arguments and result

VARIABLES
    newProducts,  \* committed rows of table products that CreateProduct inserted
    seen          \* what the latest product operation outside a transaction returned

orderVars == <<products, orders, order_items, lock, txState, txWrites, txOrders,
          txItems, req, pc, idx, err, product, order, totalAmount, ret,
          trace, logged>>
readVars == <<rd, found>>
webVars == <<http, body>>
userVars == <<users, reg, login>>
prodVars == <<newProducts, seen>>
vars == <<orderVars, readVars, webVars, userVars, prodVars>>

----------------------------------------------------------------------------
(* Bounds and the universe of inputs *)

MaxQty == 2        \* largest quantity a line item requests

ItemCounts == {0, 1, 2}        \* lengths of the item lists the calls are given

Calls == {"c1", "c2"}          \* concurrent CreateOrder calls
UserOf == [c \in Calls |-> IF c = "c1" THEN "u1" ELSE "u2"]   \* the caller's userID
Existing == {"A", "B"}         \* product rows present in the table
Missing == {"X"}               \* a product id with no row
ProductIDs == Existing \cup Missing

InitQuantity == [p \in Existing |-> IF p = "A" THEN MaxQty + 1 ELSE MaxQty - 1]
InitPrice == [p \in Existing |-> IF p = "A" THEN 5 ELSE 7]

NoCall == "none"
Idle == [pc |-> "idle"]
NoOrder == [ID |-> "nil", UserID |-> "nil", Items |-> <<>>, TotalAmount |-> 0]
NoProduct == [ID |-> "nil", Quantity |-> 0, Price |-> 0]
\* What `found` holds for an id no FindByID has returned for yet.
NotRead == [err |-> <<"not read">>, order |-> NoOrder]

OrderItemInput == [ProductID : ProductIDs, Quantity : 1..MaxQty]
ItemLists == UNION {[1..n -> OrderItemInput] : n \in ItemCounts}

----------------------------------------------------------------------------
(* Go error values: an error is the chain of messages from the outermost   *)
(* wrapper to the sentinel; nil is the empty chain.                        *)

Nil == <<>>
ErrInsufficientStock == <<"insufficient stock for a product">>
ErrProductNotFound == <<"service: product not found">>
RepoErrProductNotFound == <<"repository: product not found">>
ErrNoRows == <<"no rows in result set">>
DbError == <<"database error">>
ErrTxClosed == <<"tx is closed">>

Wrap(msg, e) == <<msg>> \o e

ErrorsIs(e, target) ==
    \E i \in 1..Len(e) : SubSeq(e, i, Len(e)) = target

----------------------------------------------------------------------------
(* The database as a transaction sees it *)

\* Variant: the read does not see the transaction's own update.
RowSeenBy_CommittedOnly(c, p) ==
    [ID |-> p, Quantity |-> products[p].quantity, Price |-> products[p].price]

\* The row of product p as a statement of transaction c reads it: the
\* committed row, overlaid with the transaction's own uncommitted update.
RowSeenBy(c, p) ==
    [ID |-> p,
     Quantity |-> IF p \in DOMAIN txWrites[c] THEN txWrites[c][p]
                  ELSE products[p].quantity,
     Price |-> products[p].price]

\* Variant: the read takes no row lock (FOR UPDATE left out).
RowLockFree_NoLock(c, p) == TRUE

\* Variant: the read locks the whole table instead of the row.
RowLockFree_TableLock(c, p) == \A q \in Existing : lock[q] \in {NoCall, c}

\* SELECT ... FOR UPDATE returns once no other transaction holds the row.
RowLockFree(c, p) == lock[p] \in {NoCall, c}

\* Ending a transaction releases every row lock it holds.
ReleaseLocks(c) == [p \in Existing |-> IF lock[p] = c THEN NoCall ELSE lock[p]]

\* The products table after transaction c's updates are made durable.
ApplyWrites(c) ==
    [p \in Existing |->
        IF p \in DOMAIN txWrites[c]
        THEN [products[p] EXCEPT !.quantity = txWrites[c][p]]
        ELSE products[p]]

\* One more database call in the call's history: the operation, the id it
\* names, the error it returned and (for a read) the row it returned.
LogCall(c, op, arg, e, row) ==
    [trace EXCEPT ![c] = Append(@, [op |-> op, arg |-> arg, err |-> e, row |-> row])]

----------------------------------------------------------------------------
(* Local computation of CreateOrder *)

\* Variants: the stock check left out, off by one, and strict.
SufficientStock_NoCheck(prod, item) == TRUE
SufficientStock_OffByOne(prod, item) == ~(prod.Quantity + 1 < item.Quantity)
SufficientStock_Strict(prod, item) == prod.Quantity > item.Quantity

\* order.go:88, negated: the stock check lets the item through.
SufficientStock(prod, item) == ~(prod.Quantity < item.Quantity)

\* Variant: the sentinel formatted with %v, so the chain does not hold it.
InsufficientStockError_NotWrapped == <<"insufficient stock for a product: insufficient stock for product">>

\* order.go:89: fmt.Errorf with %w wraps the sentinel.
InsufficientStockError == Wrap("insufficient stock for product", ErrInsufficientStock)

\* Variant: price-at-purchase holds the line's amount.
NewOrderItem_LineTotal(c, i, item, prod) ==
    [ID |-> <<c, i>>,
     ProductID |-> item.ProductID,
     Quantity |-> item.Quantity,
     PriceAtPurchase |-> prod.Price * item.Quantity]

\* order.go:99-104
NewOrderItem(c, i, item, prod) ==
    [ID |-> <<c, i>>,
     ProductID |-> item.ProductID,
     Quantity |-> item.Quantity,
     PriceAtPurchase |-> prod.Price]

\* Variant: the line's quantity left out of the total.
LineAmount_UnitPrice(prod, item) == prod.Price

\* order.go:106: what one line adds to totalAmount.
LineAmount(prod, item) == prod.Price * item.Quantity

\* Variant: a failed commit reported as success.
CommitResult_Swallowed(o, e) == [order |-> o, err |-> Nil]

\* order.go:117-121: what CreateOrder returns after tx.Commit returned e.
CommitResult(o, e) ==
    IF e # Nil
    THEN [order |-> NoOrder, err |-> Wrap("could not commit transaction", e)]
    ELSE [order |-> o, err |-> Nil]

\* Variant: the deferred function rolls back at every return.
DeferredRollbackRuns_Always(outerErr) == TRUE

\* order.go:62: the deferred function rolls back iff the function-level err
\* is non-nil when CreateOrder returns.
DeferredRollbackRuns(outerErr) == outerErr # Nil

\* A return statement: the results are fixed, then the deferred function
\* runs against the function-level err.
AfterReturn(outerErr) == IF DeferredRollbackRuns(outerErr) THEN "rollback" ELSE "done"

----------------------------------------------------------------------------
InitOrders ==
    /\ products = [p \in Existing |-> [quantity |-> InitQuantity[p], price |-> InitPrice[p]]]
    /\ orders = {}
    /\ order_items = {}
    /\ lock = [p \in Existing |-> NoCall]
    /\ txState = [c \in Calls |-> "none"]
    /\ txWrites = [c \in Calls |-> <<>>]
    /\ txOrders = [c \in Calls |-> {}]
    /\ txItems = [c \in Calls |-> {}]
    /\ \E items \in [Calls -> ItemLists] :
          req = [c \in Calls |-> [userID |-> UserOf[c], items |-> items[c]]]
    /\ pc = [c \in Calls |-> "idle"]
    /\ idx = [c \in Calls |-> 0]
    /\ err = [c \in Calls |-> Nil]
    /\ product = [c \in Calls |-> NoProduct]
    /\ order = [c \in Calls |-> NoOrder]
    /\ totalAmount = [c \in Calls |-> 0]
    /\ ret = [c \in Calls |-> [order |-> NoOrder, err |-> Nil]]
    /\ trace = [c \in Calls |-> <<>>]
    /\ logged = [c \in Calls |-> <<>>]

\* Variant: the rollback is deferred before the error of Begin is tested.
AfterBeginError_Deferred == "rollback"

\* order.go:57-59: the return for a failed Begin comes before the defer
\* statement, so the call is over.
AfterBeginError == "done"

\* order.go:56-74: s.db.Begin, then the locals are initialised.
Begin(c, fail) ==
    /\ pc[c] = "idle"
    /\ trace' = LogCall(c, "Begin", "-", IF fail THEN DbError ELSE Nil, NoProduct)
    /\ IF fail
       THEN /\ err' = [err EXCEPT ![c] = DbError]
            /\ ret' = [ret EXCEPT ![c] = [order |-> NoOrder,
                         err |-> Wrap("could not begin transaction", DbError)]]
            /\ pc' = [pc EXCEPT ![c] = AfterBeginError]
            /\ UNCHANGED <<txState, order, totalAmount, idx>>
       ELSE /\ txState' = [txState EXCEPT ![c] = "open"]
            /\ err' = [err EXCEPT ![c] = Nil]
            /\ order' = [order EXCEPT ![c] = [ID |-> c, UserID |-> req[c].userID,
                                              Items |-> <<>>, TotalAmount |-> 0]]
            /\ totalAmount' = [totalAmount EXCEPT ![c] = 0]
            /\ idx' = [idx EXCEPT ![c] = 1]
            /\ pc' = [pc EXCEPT ![c] = IF Len(req[c].items) = 0 THEN "create" ELSE "find"]
            /\ UNCHANGED ret
    /\ UNCHANGED <<products, orders, order_items, lock, txWrites, txOrders,
                   txItems, req, product, logged>>

\* mocks/user_repository.go:170-182 (postgres.ProductRepository.FindByIDTx):
\* the error the locked read returns.
FindByIDTxError(p, fail) ==
    IF fail THEN DbError
    ELSE IF p \notin Existing THEN RepoErrProductNotFound
    ELSE Nil

\* Variant: the list is walked from its end.
CurrentItem_Reversed(c) == req[c].items[Len(req[c].items) + 1 - idx[c]]

\* order.go:77: the item the range loop is at.
CurrentItem(c) == req[c].items[idx[c]]

\* order.go:80-85: what CreateOrder returns for a failed locked read.
FindErrorReturned(e) ==
    IF ErrorsIs(e, RepoErrProductNotFound) THEN ErrProductNotFound
    ELSE Wrap("OrderService.CreateOrder", e)

\* order.go:79-93: the locked read of the current item's product, the
\* not-found and error returns, the stock check and the local decrement.
\* The err assigned here is the loop body's own variable (declared by := at
\* order.go:79), so the function-level err stays as Begin left it.
FindByIDTx(c, fail) ==
    /\ pc[c] = "find"
    /\ LET item == CurrentItem(c)
           p == item.ProductID
           e == FindByIDTxError(p, fail)
       IN  /\ trace' = LogCall(c, "FindByIDTx", p, e,
                               IF e = Nil THEN RowSeenBy(c, p) ELSE NoProduct)
           /\ IF e # Nil
              THEN /\ ret' = [ret EXCEPT ![c] = [order |-> NoOrder,
                                                 err |-> FindErrorReturned(e)]]
                   /\ pc' = [pc EXCEPT ![c] = AfterReturn(err[c])]
                   /\ UNCHANGED <<lock, product>>
              ELSE /\ RowLockFree(c, p)
                   /\ lock' = [lock EXCEPT ![p] = c]
                   /\ IF SufficientStock(RowSeenBy(c, p), item)
                      THEN /\ product' = [product EXCEPT ![c] =
                                  [RowSeenBy(c, p) EXCEPT !.Quantity = @ - item.Quantity]]
                           /\ pc' = [pc EXCEPT ![c] = "update"]
                           /\ UNCHANGED ret
                      ELSE /\ product' = [product EXCEPT ![c] = RowSeenBy(c, p)]
                           /\ ret' = [ret EXCEPT ![c] = [order |-> NoOrder,
                                                         err |-> InsufficientStockError]]
                           /\ pc' = [pc EXCEPT ![c] = AfterReturn(err[c])]
    /\ UNCHANGED <<products, orders, order_items, txState, txWrites, txOrders,
                   txItems, req, idx, err, order, totalAmount, logged>>

\* Variant: the UPDATE has no WHERE clause.
WriteQuantity_AllRows(c, prod) == [p \in Existing |-> prod.Quantity]

\* UPDATE products SET quantity = $2 WHERE id = $1, inside transaction c.
WriteQuantity(c, prod) ==
    [p \in DOMAIN txWrites[c] \cup {prod.ID} |->
        IF p = prod.ID THEN prod.Quantity ELSE txWrites[c][p]]

\* Variant: the UPDATE runs on the pool (r.db.Exec) and commits by itself.
ProductsAfterUpdateTx_Autocommit(c, prod) ==
    [products EXCEPT ![prod.ID].quantity = prod.Quantity]

\* The committed table after that UPDATE: it runs on tx (tx.Exec), so the
\* committed row is untouched until the transaction commits.
ProductsAfterUpdateTx(c, prod) == products

\* order.go:94-107: the quantity update, then the item is appended and the
\* total accumulated; the loop moves to the next item or leaves.
\* The failed update is assigned to the loop body's err, not the
\* function-level one.
UpdateTx(c, fail) ==
    /\ pc[c] = "update"
    /\ LET item == CurrentItem(c)
           prod == product[c]
       IN  /\ trace' = LogCall(c, "UpdateTx", prod.ID, IF fail THEN DbError ELSE Nil, NoProduct)
           /\ IF fail
              THEN /\ ret' = [ret EXCEPT ![c] = [order |-> NoOrder,
                                 err |-> Wrap("could not update product quantity", DbError)]]
                   /\ pc' = [pc EXCEPT ![c] = AfterReturn(err[c])]
                   /\ UNCHANGED <<txWrites, order, totalAmount, idx>>
              ELSE /\ txWrites' = [txWrites EXCEPT ![c] = WriteQuantity(c, prod)]
                   /\ order' = [order EXCEPT ![c].Items =
                                   Append(@, NewOrderItem(c, idx[c], item, prod))]
                   /\ totalAmount' = [totalAmount EXCEPT ![c] = @ + LineAmount(prod, item)]
                   /\ idx' = [idx EXCEPT ![c] = @ + 1]
                   /\ pc' = [pc EXCEPT ![c] =
                                IF idx[c] < Len(req[c].items) THEN "find" ELSE "create"]
                   /\ UNCHANGED ret
           /\ products' = IF fail THEN products ELSE ProductsAfterUpdateTx(c, prod)
    /\ UNCHANGED <<orders, order_items, lock, txState, txOrders,
                   txItems, req, err, product, logged>>

\* part_001:26-27: the row INSERT INTO orders writes.
OrderRow(o) == [id |-> o.ID, user_id |-> o.UserID, total_amount |-> o.TotalAmount]

\* part_001:33-36: the row INSERT INTO order_items writes for item i of o.
OrderItemRow(o, i) ==
    [id |-> o.Items[i].ID, order_id |-> o.ID, product_id |-> o.Items[i].ProductID,
     quantity |-> o.Items[i].Quantity, price_at_purchase |-> o.Items[i].PriceAtPurchase]

\* Variant: a failing insert makes CreateTx delete what it inserted.
InsertsDone_CleanedUp(o, failAt) ==
    IF failAt = 0 THEN Len(o.Items) + 1 ELSE 0

\* Variant: CreateTx inserts the header and leaves the items out.
InsertsDone_HeaderOnly(o, failAt) ==
    IF failAt = 0 THEN 1 ELSE failAt - 1

\* part_001:24-42: the number of inserts CreateTx has made when it returns:
\* the header and every item, or the ones before the failing insert.
InsertsDone(o, failAt) ==
    IF failAt = 0 THEN Len(o.Items) + 1 ELSE failAt - 1

\* order.go:109-114 with part_001:24-42 (OrderRepository.CreateTx): the total
\* is set, the header is inserted, then the items in list order.  failAt = 0
\* is success; failAt = k > 0 makes the k-th insert fail (1 is the header),
\* and CreateTx returns at once.  This err is the function-level one.
CreateTx(c, failAt) ==
    /\ pc[c] = "create"
    /\ failAt \in 0..(Len(order[c].Items) + 1)
    /\ LET o == [order[c] EXCEPT !.TotalAmount = totalAmount[c]]
           done == InsertsDone(o, failAt)
           e == IF failAt = 0 THEN Nil ELSE DbError
       IN  /\ order' = [order EXCEPT ![c] = o]
           /\ txOrders' = [txOrders EXCEPT ![c] =
                              IF done >= 1 THEN @ \cup {OrderRow(o)} ELSE @]
           /\ txItems' = [txItems EXCEPT ![c] =
                              @ \cup {OrderItemRow(o, i) : i \in 1..(done - 1)}]
           /\ trace' = LogCall(c, "CreateTx", o.ID, e, NoProduct)
           /\ err' = [err EXCEPT ![c] = e]
           /\ IF e # Nil
              THEN /\ ret' = [ret EXCEPT ![c] = [order |-> NoOrder,
                                 err |-> Wrap("could not create order", e)]]
                   /\ pc' = [pc EXCEPT ![c] = AfterReturn(e)]
              ELSE /\ pc' = [pc EXCEPT ![c] = "commit"]
                   /\ UNCHANGED ret
    /\ UNCHANGED <<products, orders, order_items, lock, txState, txWrites,
                   req, idx, product, totalAmount, logged>>

\* order.go:117-121: tx.Commit.  A successful commit makes the transaction's
\* updates and inserts durable at once; a failed one leaves nothing of them
\* (pgx closes the transaction; the server discards it).  Either way the
\* transaction is over and its row locks are released.
Commit(c, fail) ==
    /\ pc[c] = "commit"
    /\ LET e == IF fail THEN DbError ELSE Nil
       IN  /\ trace' = LogCall(c, "Commit", "-", e, NoProduct)
           /\ err' = [err EXCEPT ![c] = e]
           /\ lock' = ReleaseLocks(c)
           /\ txWrites' = [txWrites EXCEPT ![c] = <<>>]
           /\ txOrders' = [txOrders EXCEPT ![c] = {}]
           /\ txItems' = [txItems EXCEPT ![c] = {}]
           /\ IF fail
              THEN /\ txState' = [txState EXCEPT ![c] = "aborted"]
                   /\ UNCHANGED <<products, orders, order_items>>
              ELSE /\ txState' = [txState EXCEPT ![c] = "committed"]
                   /\ products' = ApplyWrites(c)
                   /\ orders' = orders \cup txOrders[c]
                   /\ order_items' = order_items \cup txItems[c]
           /\ ret' = [ret EXCEPT ![c] = CommitResult(order[c], e)]
           /\ pc' = [pc EXCEPT ![c] = AfterReturn(e)]
    /\ UNCHANGED <<req, idx, product, order, totalAmount, logged>>

\* Variant: a failed rollback replaces the error the call returns.
ResultAfterRollback_Masked(r, rbErr) ==
    IF rbErr # Nil THEN [order |-> NoOrder, err |-> rbErr] ELSE r

\* order.go:52, 60-67: the results are unnamed, so the deferred function
\* cannot change what the return statement has set.
ResultAfterRollback(r, rbErr) == r

\* order.go:63-65: tx.Rollback in the deferred function.  On an open
\* transaction it discards the updates and inserts and releases the locks
\* (also when the call itself reports an error: pgx then drops the
\* connection); on a transaction Commit has already closed it returns
\* ErrTxClosed.  A rollback error is logged and the results stay as returned.
Rollback(c, fail) ==
    /\ pc[c] = "rollback"
    /\ LET rbErr == IF txState[c] # "open" THEN ErrTxClosed
                    ELSE IF fail THEN DbError ELSE Nil
       IN  /\ trace' = LogCall(c, "Rollback", "-", rbErr, NoProduct)
           /\ logged' = [logged EXCEPT ![c] =
                            IF rbErr # Nil
                            THEN Append(@, [rollback_error |-> rbErr, original_error |-> err[c]])
                            ELSE @]
           /\ ret' = [ret EXCEPT ![c] = ResultAfterRollback(@, rbErr)]
    /\ txState' = [txState EXCEPT ![c] = IF @ = "open" THEN "rolledback" ELSE @]
    /\ lock' = ReleaseLocks(c)
    /\ txWrites' = [txWrites EXCEPT ![c] = <<>>]
    /\ txOrders' = [txOrders EXCEPT ![c] = {}]
    /\ txItems' = [txItems EXCEPT ![c] = {}]
    /\ pc' = [pc EXCEPT ![c] = "done"]
    /\ UNCHANGED <<products, orders, order_items, req, idx, err, product,
                   order, totalAmount>>

----------------------------------------------------------------------------
(* The catalog and order stores outside the order transaction *)

\* The values an update writes: the product restocked, at the old price or
\* a raised one.
PriceChoices(p) == {InitPrice[p], InitPrice[p] + 1}
StockChoices(p) == {InitQuantity[p]}
\* The order ids FindByID is called with.
ReadIDs == {"c1"}

\* mocks/user_repository.go:161-166 (postgres.ProductRepository.Update): the
\* full-row update, one statement on the pool that commits by itself.  It
\* waits while a transaction holds the row lock.  (An id with no row updates
\* nothing and returns nil: no step.)
Update(p, quantity, price) ==
    /\ p \in Existing
    /\ lock[p] = NoCall
    /\ products' = [products EXCEPT ![p] = [quantity |-> quantity, price |-> price]]
    /\ products' # products
    /\ UNCHANGED <<orders, order_items, lock, txState, txWrites, txOrders,
                   txItems, req, pc, idx, err, product, order, totalAmount,
                   ret, trace, logged, readVars, webVars, userVars, prodVars>>

\* part_001:56-61: the rows the items query of FindByID selects (no ORDER
\* BY: the result is a set).
ItemsRead(id) ==
    {[ID |-> r.id, ProductID |-> r.product_id, Quantity |-> r.quantity,
      PriceAtPurchase |-> r.price_at_purchase] :
        r \in {x \in order_items : x.order_id = id}}

\* part_001:67-76: the rows the loop appends.  rows.Next returns false at
\* the end of the result and also when reading the stream fails; rows.Err is
\* not consulted, so the loop ends the same way after any part of the rows.
RowsScanned(id) == SUBSET ItemsRead(id)

\* part_001:45-54: the header query of FindByID.  No row, or a failing
\* query, ends the call with that error.
FindByIDHeader(id, fail) ==
    /\ rd = Idle
    /\ LET rows == {o \in orders : o.id = id}
       IN  IF fail \/ rows = {}
           THEN /\ found' = [found EXCEPT ![id] =
                       [err |-> IF fail THEN DbError ELSE ErrNoRows, order |-> NoOrder]]
                /\ rd' = rd
           ELSE /\ rd' = [pc |-> "items", id |-> id,
                          header |-> CHOOSE o \in rows : TRUE]
                /\ found' = found
    /\ UNCHANGED <<orderVars, webVars, userVars, prodVars>>

\* part_001:56-76: the items query of FindByID and its result: the query
\* fails (fail), or the loop appends the rows it scanned and the call returns
\* the order with a nil error.
FindByIDItems(fail, scanned) ==
    /\ rd.pc = "items"
    /\ scanned \in RowsScanned(rd.id)
    /\ found' = [found EXCEPT ![rd.id] =
          IF fail THEN [err |-> DbError, order |-> NoOrder]
          ELSE [err |-> Nil,
                order |-> [ID |-> rd.header.id, UserID |-> rd.header.user_id,
                           TotalAmount |-> rd.header.total_amount,
                           Items |-> scanned]]]
    /\ rd' = Idle
    /\ UNCHANGED <<orderVars, webVars, userVars, prodVars>>

InitReads ==
    /\ rd = Idle
    /\ found = [id \in ReadIDs |-> NotRead]

----------------------------------------------------------------------------
(* POST /orders: the JWT middleware and OrderHandler.Create *)

JWTSecret == "secret"
HMACMethods == {"HS256", "HS384", "HS512"}
NoSub == [type |-> "absent", val |-> ""]
NoToken == [wellFormed |-> FALSE, alg |-> "", key |-> "", expired |-> FALSE, sub |-> NoSub]
NoHeader == [prefix |-> "", token |-> NoToken]

\* Tokens a request of call c's user may carry: the one Login issues, and
\* that token with one thing wrong.
GoodToken(c) ==
    [wellFormed |-> TRUE, alg |-> "HS256", key |-> JWTSecret, expired |-> FALSE,
     sub |-> [type |-> "string", val |-> UserOf[c]]]
Tokens(c) ==
    {GoodToken(c),
     [GoodToken(c) EXCEPT !.wellFormed = FALSE],
     [GoodToken(c) EXCEPT !.alg = "RS256"],
     [GoodToken(c) EXCEPT !.key = "forged"],
     [GoodToken(c) EXCEPT !.expired = TRUE],
     [GoodToken(c) EXCEPT !.sub = NoSub],
     [GoodToken(c) EXCEPT !.sub = [type |-> "number", val |-> "42"]],
     [GoodToken(c) EXCEPT !.sub = [type |-> "string", val |-> "not-a-uuid"]]}

\* Authorization headers: none, a bare token, "Bearer " and a token.
AuthHeaders(c) ==
    {NoHeader, [prefix |-> "", token |-> GoodToken(c)]}
        \cup {[prefix |-> "Bearer ", token |-> t] : t \in Tokens(c)}

\* middleware.go:88: strings.TrimPrefix(authHeader, "Bearer ")
TrimPrefix(h) == IF h.prefix = "Bearer " THEN [h EXCEPT !.prefix = ""] ELSE h

\* Variant: the token is decoded but neither method nor signature nor
\* claims are checked.
ParseError_Unverified(t) ==
    IF ~t.wellFormed THEN <<"token is malformed">> ELSE Nil

\* middleware.go:95-101: the error of jwt.Parse with the key function that
\* accepts HMAC methods only: the token is split and decoded, the key
\* function is asked for the key, the signature is verified, the registered
\* claims are validated.
ParseError(t) ==
    IF ~t.wellFormed THEN <<"token is malformed">>
    ELSE IF t.alg \notin HMACMethods
         THEN <<"token is unverifiable", "net/http: abort Handler">>
    ELSE IF t.key # JWTSecret THEN <<"signature is invalid">>
    ELSE IF t.expired THEN <<"token is expired">>
    ELSE Nil

\* token.Valid after jwt.Parse
TokenValid(t) == ParseError(t) = Nil

Responded(h, status) == [stage |-> "responded", header |-> h, userID |-> "", status |-> status]

\* middleware.go:78-119: the request of call c arrives with header h; it is
\* answered 401, or next.ServeHTTP runs with the sub claim in the context.
JWTMiddleware(c, h) ==
    /\ http[c].stage = "received"
    /\ LET tokenString == TrimPrefix(h)
           token == tokenString.token
       IN  http' = [http EXCEPT ![c] =
               IF h = NoHeader THEN Responded(h, 401)
               ELSE IF tokenString = h THEN Responded(h, 401)
               ELSE IF ParseError(token) # Nil THEN Responded(h, 401)
               ELSE IF TokenValid(token)
                    THEN IF token.sub.type # "string" THEN Responded(h, 401)
                         ELSE [stage |-> "handler", header |-> h,
                               userID |-> token.sub.val, status |-> 0]
               ELSE Responded(h, 401)]
    /\ UNCHANGED <<body, orderVars, readVars, userVars, prodVars>>

\* Variant: the quantity tag (gt=0) left out.
ValidBody_NoQuantityTag(items) == Len(items) >= 1

\* part_008:15-21 with validator.go:15-20: the tags of CreateOrderRequest
\* (items: required,min=1,dive; quantity: required,gt=0).
ValidBody(items) ==
    /\ Len(items) >= 1
    /\ \A i \in 1..Len(items) : items[i].Quantity > 0

\* uuid.Parse succeeds on the user ids and on nothing else a token carries.
IsUUID(str) == str \in {UserOf[c] : c \in Calls}

\* The items a request body can carry: a quantity may be zero or negative.
BodyQuantities == {-1, 0} \cup (1..MaxQty)
BodyItemInput == [ProductID : ProductIDs, Quantity : BodyQuantities]
BodyLists == UNION {[1..n -> BodyItemInput] : n \in ItemCounts}

\* Variant: the items come to the service in reverse order.
ServiceItems_Reversed(items) ==
    [i \in 1..Len(items) |->
        [ProductID |-> items[Len(items) + 1 - i].ProductID,
         Quantity |-> items[Len(items) + 1 - i].Quantity]]

\* part_008:68-75: the handler's items converted to the service's, one by
\* one in list order.
ServiceItems(items) ==
    [i \in 1..Len(items) |->
        [ProductID |-> items[i].ProductID, Quantity |-> items[i].Quantity]]

\* part_008:44-75: the handler up to the call of CreateOrder: the body b is
\* decoded and validated, the user id is taken from the context and parsed,
\* and CreateOrder is called with the user id and the converted items.
CreateEnter(c, b) ==
    /\ http[c].stage = "handler"
    /\ body' = [body EXCEPT ![c] = b]
    /\ http' = [http EXCEPT ![c] =
           IF ~ValidBody(b) THEN Responded(@.header, 400)
           ELSE IF ~IsUUID(@.userID) THEN Responded(@.header, 500)
           ELSE [@ EXCEPT !.stage = "service"]]
    /\ req' = IF ValidBody(b) /\ IsUUID(http[c].userID)
              THEN [req EXCEPT ![c] = [userID |-> http[c].userID,
                                       items |-> ServiceItems(b)]]
              ELSE req
    /\ UNCHANGED <<products, orders, order_items, lock, txState, txWrites,
                   txOrders, txItems, pc, idx, err, product, order,
                   totalAmount, ret, trace, logged,
                   readVars, userVars, prodVars>>

\* Variants: every failure answered 500; not-found answered 404.
CreateStatus_AllInternal(e) == 500
CreateStatus_NotFound404(e) ==
    IF ErrorsIs(e, ErrProductNotFound) THEN 404
    ELSE IF ErrorsIs(e, ErrInsufficientStock) THEN 409
    ELSE 500

\* part_008:77-89: the status for an error of CreateOrder.
CreateStatus(e) ==
    IF ErrorsIs(e, ErrProductNotFound) THEN 400
    ELSE IF ErrorsIs(e, ErrInsufficientStock) THEN 409
    ELSE 500

\* part_008:76-95: CreateOrder has returned; the response is written.
CreateRespond(c) ==
    /\ http[c].stage = "service"
    /\ pc[c] = "done"
    /\ http' = [http EXCEPT ![c] =
           [@ EXCEPT !.stage = "responded",
                     !.status = IF ret[c].err # Nil THEN CreateStatus(ret[c].err)
                                ELSE 201]]
    /\ UNCHANGED <<body, orderVars, readVars, userVars, prodVars>>

\* CreateOrder is called directly, by no HTTP request.
InitDirect ==
    /\ http = [c \in Calls |-> [stage |-> "none", header |-> NoHeader,
                                userID |-> "", status |-> 0]]
    /\ body = [c \in Calls |-> <<>>]

----------------------------------------------------------------------------
(* UsersService: Register and Login *)

RegCalls == {"r1", "r2"}       \* concurrent Register calls
LoginCalls == {"l1", "l2"}     \* concurrent Login calls
Emails == {"a@x", "b@x"}
Passwords == {"pw1", "pw2"}

ErrUserAlreadyExists == <<"user with this email already exists">>
ErrUserNotFound == <<"user not found">>
ErrInvalidCredentials == <<"invalid credentials">>
\* The driver's error for an INSERT that breaks users_email_key.
UniqueViolation == <<"duplicate key value violates unique constraint (SQLSTATE 23505)">>

NoUser == [id |-> "nil", email |-> "", password_hash |-> <<>>]

\* bcrypt: the hash holds a salt and the digest of the password under it;
\* the comparison recomputes the digest from the hash's salt.
GenerateFromPassword(password, salt) == <<"$2a$", salt, <<salt, password>>>>
CompareHashAndPassword(hash, password) == hash[3] = <<hash[2], password>>

\* postgres/user.go:48-71 (UserRepository.FindByEmail)
FindByEmail(email, fail) ==
    LET rows == {u \in users : u.email = email}
    IN  IF fail THEN [user |-> NoUser, err |-> DbError]
        ELSE IF rows = {} THEN [user |-> NoUser, err |-> ErrUserNotFound]
        ELSE [user |-> CHOOSE u \in rows : TRUE, err |-> Nil]

\* part_007:132-140: Register is called with (email, password) and looks the
\* email up; a user found ends the call with ErrUserAlreadyExists, any error
\* but not-found ends it with that error.
RegisterFind(r, email, password, fail) ==
    /\ reg[r].pc = "idle"
    /\ LET f == FindByEmail(email, fail)
       IN  reg' = [reg EXCEPT ![r] =
               IF f.err = Nil
               THEN [pc |-> "done", email |-> email, password |-> password,
                     user |-> NoUser, err |-> ErrUserAlreadyExists]
               ELSE IF ~ErrorsIs(f.err, ErrUserNotFound)
               THEN [pc |-> "done", email |-> email, password |-> password,
                     user |-> NoUser, err |-> f.err]
               ELSE [pc |-> "create", email |-> email, password |-> password,
                     user |-> NoUser, err |-> Nil]]
    /\ UNCHANGED <<users, login, orderVars, readVars, webVars, prodVars>>

\* Variant: the insert's unique violation is reported as the sentinel.
CreateError_Sentinel(email, fail) ==
    IF fail THEN DbError
    ELSE IF \E u \in users : u.email = email THEN ErrUserAlreadyExists
    ELSE Nil

\* Variant: the email column has no unique constraint.
CreateError_NoConstraint(email, fail) == IF fail THEN DbError ELSE Nil

\* postgres/user.go:24-31 with migrations/000001_init.up.sql:1-10: the error
\* of the INSERT; email is UNIQUE.
CreateError(email, fail) ==
    IF fail THEN DbError
    ELSE IF \E u \in users : u.email = email THEN UniqueViolation
    ELSE Nil

\* part_007:142-164: the password is hashed, the user is built with a new
\* id and inserted; the insert's error is returned as it is.
RegisterCreate(r, fail) ==
    /\ reg[r].pc = "create"
    /\ LET user == [id |-> r, email |-> reg[r].email,
                    password_hash |-> GenerateFromPassword(reg[r].password, r)]
           e == CreateError(reg[r].email, fail)
       IN  /\ users' = IF e = Nil THEN users \cup {user} ELSE users
           /\ reg' = [reg EXCEPT ![r] =
                  [@ EXCEPT !.pc = "done",
                            !.user = IF e = Nil THEN user ELSE NoUser,
                            !.err = e]]
    /\ UNCHANGED <<login, orderVars, readVars, webVars, prodVars>>

\* Variant: an unknown email is reported as such.
UnknownEmailError_Revealing == ErrUserNotFound

\* part_007:175-177: what Login returns when no user has the email.
UnknownEmailError == ErrInvalidCredentials

\* part_007:186-195: the token Login signs for a user.
IssuedToken(user) ==
    [wellFormed |-> TRUE, alg |-> "HS256", key |-> JWTSecret, expired |-> FALSE,
     sub |-> [type |-> "string", val |-> user.id]]

\* part_007:169-198 (UsersService.Login)
Login(l, email, password, fail) ==
    /\ login[l].pc = "idle"
    /\ LET f == FindByEmail(email, fail)
       IN  login' = [login EXCEPT ![l] =
               [pc |-> "done", email |-> email, password |-> password,
                token |-> IF f.err = Nil
                             /\ CompareHashAndPassword(f.user.password_hash, password)
                          THEN IssuedToken(f.user) ELSE NoToken,
                err |-> IF f.err # Nil
                        THEN IF ErrorsIs(f.err, ErrUserNotFound) THEN UnknownEmailError
                             ELSE Wrap("UsersService.Login", f.err)
                        ELSE IF ~CompareHashAndPassword(f.user.password_hash, password)
                        THEN ErrInvalidCredentials
                        ELSE Nil]]
    /\ UNCHANGED <<users, reg, orderVars, readVars, webVars, prodVars>>

InitUsers ==
    /\ users = {}
    /\ reg = [r \in RegCalls |-> [pc |-> "idle", email |-> "", password |-> "",
                                  user |-> NoUser, err |-> Nil]]
    /\ login = [l \in LoginCalls |-> [pc |-> "idle", email |-> "", password |-> "",
                                      token |-> NoToken, err |-> Nil]]

----------------------------------------------------------------------------
(* Products outside the order transaction: ProductService and the
   repository's reads on the pool *)

NewIDs == {"N"}                \* the ids uuid.New gives to created products
NewQuantities == {0, MaxQty}
NewPrices == {3}

NoResult == [op |-> "none", ids |-> {}, err |-> Nil, rows |-> {}]

\* The rows of table products a statement on the pool sees: the committed
\* ones (READ COMMITTED; a plain SELECT waits for no row lock).
ProductRows ==
    {[ID |-> p, Quantity |-> products[p].quantity, Price |-> products[p].price] :
        p \in Existing} \cup newProducts

\* mocks/user_repository.go:117-129 (postgres.ProductRepository.FindByID)
FindByID(id, fail) ==
    LET rows == {r \in ProductRows : r.ID = id}
    IN  IF fail THEN [err |-> DbError, rows |-> {}]
        ELSE IF rows = {} THEN [err |-> RepoErrProductNotFound, rows |-> {}]
        ELSE [err |-> Nil, rows |-> rows]

\* product.go:46-55 (ProductService.GetProductByID): the repository's
\* not-found becomes the service's, other errors pass unchanged.
GetProductByID(id, fail) ==
    /\ LET f == FindByID(id, fail)
       IN  seen' = [op |-> "GetProductByID", ids |-> {id}, rows |-> f.rows,
                    err |-> IF ErrorsIs(f.err, RepoErrProductNotFound)
                            THEN ErrProductNotFound ELSE f.err]
    /\ UNCHANGED <<newProducts, orderVars, readVars, webVars, userVars>>

\* Variant: any missing id makes the call fail with not-found.
FindByIDsResult_AllRequired(ids, fail) ==
    LET rows == {r \in ProductRows : r.ID \in ids}
    IN  IF fail THEN [err |-> DbError, rows |-> {}]
        ELSE IF {r.ID : r \in rows} # ids \/ rows = {}
        THEN [err |-> RepoErrProductNotFound, rows |-> {}]
        ELSE [err |-> Nil, rows |-> rows]

\* mocks/user_repository.go:131-159 (postgres.ProductRepository.FindByIDs):
\* WHERE id = ANY($1); a failing query or stream (rows.Err is checked)
\* returns the error; no row scanned is not-found; else the rows scanned.
FindByIDsResult(ids, fail) ==
    LET rows == {r \in ProductRows : r.ID \in ids}
    IN  IF fail THEN [err |-> DbError, rows |-> {}]
        ELSE IF rows = {} THEN [err |-> RepoErrProductNotFound, rows |-> {}]
        ELSE [err |-> Nil, rows |-> rows]

FindByIDs(ids, fail) ==
    /\ LET f == FindByIDsResult(ids, fail)
       IN  seen' = [op |-> "FindByIDs", ids |-> ids, rows |-> f.rows, err |-> f.err]
    /\ UNCHANGED <<newProducts, orderVars, readVars, webVars, userVars>>

\* product.go:27-42 (ProductService.CreateProduct) with
\* mocks/user_repository.go:110-115 (Create): a product with a new id is
\* inserted; the insert's error is returned as it is.
CreateProduct(id, quantity, price, fail) ==
    /\ id \in NewIDs
    /\ id \notin {r.ID : r \in newProducts}
    /\ LET p == [ID |-> id, Quantity |-> quantity, Price |-> price]
       IN  /\ newProducts' = IF fail THEN newProducts ELSE newProducts \cup {p}
           /\ seen' = [op |-> "CreateProduct", ids |-> {id},
                       rows |-> IF fail THEN {} ELSE {p},
                       err |-> IF fail THEN DbError ELSE Nil]
    /\ UNCHANGED <<orderVars, readVars, webVars, userVars>>

InitProducts ==
    /\ newProducts = {}
    /\ seen = NoResult

Init == InitOrders /\ InitReads /\ InitDirect /\ InitUsers /\ InitProducts

----------------------------------------------------------------------------
\* One step of call c; fail picks the outcome of the database round trip.
Step(c, fail) ==
    \/ Begin(c, fail)
    \/ FindByIDTx(c, fail)
    \/ UpdateTx(c, fail)
    \/ \E k \in 0..(Len(order[c].Items) + 1) : fail = (k # 0) /\ CreateTx(c, k)
    \/ Commit(c, fail)
    \/ Rollback(c, fail)

CallStep(c, fail) == Step(c, fail) /\ UNCHANGED <<readVars, webVars, userVars, prodVars>>

Next == \E c \in Calls, fail \in BOOLEAN : CallStep(c, fail)

Spec == Init /\ [][Next]_vars

\* The scheduler and a healthy database let every call take its next step;
\* a failing round trip is never forced.
FairSpec == Spec /\ \A c \in Calls : WF_vars(CallStep(c, FALSE))

\* The order workflow together with the other users of the two stores:
\* product updates and order reads.  The requests name existing products;
\* the call whose order is read has one or two items, the other one item.
InitCatalog ==
    /\ Init
    /\ \A c \in Calls :
          /\ Len(req[c].items) >= 1
          /\ c \notin ReadIDs => Len(req[c].items) = 1
          /\ \A i \in 1..Len(req[c].items) : req[c].items[i].ProductID \in Existing

CatalogNext ==
    \/ \E c \in Calls, fail \in BOOLEAN : CallStep(c, fail)
    \/ \E p \in Existing : \E q \in StockChoices(p), pr \in PriceChoices(p) :
          Update(p, q, pr)
    \/ \E id \in ReadIDs, fail \in BOOLEAN : FindByIDHeader(id, fail)
    \/ /\ rd.pc = "items"
       /\ \E fail \in BOOLEAN : \E scanned \in RowsScanned(rd.id) :
             FindByIDItems(fail, scanned)

CatalogSpec == InitCatalog /\ [][CatalogNext]_vars

\* Every call arrives as a POST /orders request through the router: its
\* items are not known before the handler decodes the body.
InitHttp ==
    /\ InitOrders
    /\ InitReads
    /\ \A c \in Calls : req[c].items = <<>>
    /\ http = [c \in Calls |-> [stage |-> "received", header |-> NoHeader,
                                userID |-> "", status |-> 0]]
    /\ body = [c \in Calls |-> <<>>]
    /\ InitUsers
    /\ InitProducts

\* main.go:144-151: the group that JWTMiddleware guards; CreateOrder runs
\* inside the handler.  The body of the second request has at most one item.
HttpNext ==
    \E c \in Calls :
        \/ \E h \in AuthHeaders(c) : JWTMiddleware(c, h)
        \/ \E b \in BodyLists : (c = "c2" => Len(b) <= 1) /\ CreateEnter(c, b)
        \/ \E fail \in BOOLEAN : http[c].stage = "service" /\ CallStep(c, fail)
        \/ CreateRespond(c)

HttpSpec == InitHttp /\ [][HttpNext]_vars

\* The user service alone: no order request is under way.
InitUserService ==
    /\ Init
    /\ \A c \in Calls : req[c].items = <<>>

UserNext ==
    \/ \E r \in RegCalls, email \in Emails, password \in Passwords, fail \in BOOLEAN :
          RegisterFind(r, email, password, fail)
    \/ \E r \in RegCalls, fail \in BOOLEAN : RegisterCreate(r, fail)
    \/ \E l \in LoginCalls, email \in Emails, password \in Passwords, fail \in BOOLEAN :
          Login(l, email, password, fail)

UserSpec == InitUserService /\ [][UserNext]_vars

\* The order workflow with readers outside its transactions: product reads
\* on the pool and OrderRepository.FindByID.
ReaderNext ==
    \/ \E c \in Calls, fail \in BOOLEAN : CallStep(c, fail)
    \/ \E id \in ProductIDs, fail \in BOOLEAN : GetProductByID(id, fail)
    \/ \E id \in ReadIDs, fail \in BOOLEAN : FindByIDHeader(id, fail)
    \/ /\ rd.pc = "items"
       /\ \E fail \in BOOLEAN : \E scanned \in RowsScanned(rd.id) :
             FindByIDItems(fail, scanned)

ReaderSpec == InitCatalog /\ [][ReaderNext]_vars

\* One CreateOrder call of at most one item (the other call never starts).
InitOneCall ==
    /\ Init
    /\ Len(req["c1"].items) <= 1
    /\ req["c2"].items = <<>>

\* The product repository and service on the pool, beside one CreateOrder.
ProductNext ==
    \/ \E fail \in BOOLEAN : CallStep("c1", fail)
    \/ \E id \in NewIDs, q \in NewQuantities, pr \in NewPrices, fail \in BOOLEAN :
          CreateProduct(id, q, pr, fail)
    \/ \E id \in ProductIDs \cup NewIDs, fail \in BOOLEAN : GetProductByID(id, fail)
    \/ \E ids \in SUBSET (ProductIDs \cup NewIDs), fail \in BOOLEAN : FindByIDs(ids, fail)

ProductSpec == InitOneCall /\ [][ProductNext]_vars

\* main.go:85-87: the operations the three services expose, used
\* concurrently: one Register, one Login, product creation and lookup, one
\* CreateOrder.
ServiceNext ==
    \/ \E fail \in BOOLEAN : CallStep("c1", fail)
    \/ \E password \in Passwords, fail \in BOOLEAN :
          RegisterFind("r1", "a@x", password, fail)
    \/ \E fail \in BOOLEAN : RegisterCreate("r1", fail)
    \/ \E password \in Passwords, fail \in BOOLEAN : Login("l1", "a@x", password, fail)
    \/ \E id \in NewIDs, q \in NewQuantities, pr \in NewPrices, fail \in BOOLEAN :
          CreateProduct(id, q, pr, fail)
    \/ \E id \in ProductIDs \cup NewIDs, fail \in BOOLEAN : GetProductByID(id, fail)

ServiceSpec == InitOneCall /\ [][ServiceNext]_vars

\* Fair runs of concurrent single-item calls that all name one product.
InitSameProduct ==
    /\ Init
    /\ \E p \in Existing : \A c \in Calls :
          Len(req[c].items) = 1 /\ req[c].items[1].ProductID = p

FairSpecSameProduct ==
    /\ InitSameProduct
    /\ [][Next]_vars
    /\ \A c \in Calls : WF_vars(CallStep(c, FALSE))

----------------------------------------------------------------------------
(* Vocabulary of the properties *)

RECURSIVE SumQuantity(_)
\* Sum of the quantity column over a set of order_items rows.
SumQuantity(rows) ==
    IF rows = {} THEN 0
    ELSE LET r == CHOOSE x \in rows : TRUE
         IN  r.quantity + SumQuantity(rows \ {r})

RECURSIVE Demand(_, _)
\* Total quantity of product p an item list asks for.
Demand(items, p) ==
    IF items = <<>> THEN 0
    ELSE (IF Head(items).ProductID = p THEN Head(items).Quantity ELSE 0)
         + Demand(Tail(items), p)

RECURSIVE SumOver(_, _)
\* Sum of f[c] over the calls in S.
SumOver(f, S) ==
    IF S = {} THEN 0
    ELSE LET c == CHOOSE x \in S : TRUE
         IN  f[c] + SumOver(f, S \ {c})

Returned(c) == pc[c] = "done"
Succeeded(c) == Returned(c) /\ ret[c].err = Nil
Failed(c) == Returned(c) /\ ret[c].err # Nil
BeginSucceeded(c) == Len(trace[c]) >= 1 /\ trace[c][1].op = "Begin" /\ trace[c][1].err = Nil
Issued(c, op) == \E i \in 1..Len(trace[c]) : trace[c][i].op = op
\* A database round trip of the call failed for a reason outside the workflow.
Faulted(c) == \E i \in 1..Len(trace[c]) : trace[c][i].err \in {DbError, ErrTxClosed}
OthersIdle(c) == \A d \in Calls \ {c} : pc[d] = "idle"
TxEnded(c) == txState[c] \in {"committed", "rolledback", "aborted"}
HoldsLock(c) == \E p \in Existing : lock[p] = c

----------------------------------------------------------------------------
(* C1  No oversell: for every product, the quantities of that product over
   all committed order items never sum to more than its initial quantity,
   in any interleaving of concurrent CreateOrder calls. *)
C1_NoOversell ==
    \A p \in Existing :
        SumQuantity({r \in order_items : r.product_id = p}) <= InitQuantity[p]

\* Two calls competed for one product with more total demand than stock:
\* one committed, the other was refused.
C1_Witness ==
    \E p \in Existing : \E c, d \in Calls :
        /\ c # d /\ Succeeded(c) /\ Failed(d)
        /\ Demand(req[c].items, p) > 0 /\ Demand(req[d].items, p) > 0
        /\ Demand(req[c].items, p) + Demand(req[d].items, p) > InitQuantity[p]
        /\ ErrorsIs(ret[d].err, ErrInsufficientStock)

(* C2  Rollback on every step failure: a CreateOrder call that returns an
   error after Begin succeeded has attempted a Rollback of its transaction. *)
C2_RollbackOnEveryFailure ==
    \A c \in Calls :
        (Failed(c) /\ BeginSucceeded(c)) => Issued(c, "Rollback")

(* C3  Transaction release: once a CreateOrder call has returned, its
   transaction has ended by commit or rollback and it holds no row lock. *)
C3_TransactionReleased ==
    \A c \in Calls :
        (Returned(c) /\ BeginSucceeded(c)) => (TxEnded(c) /\ ~HoldsLock(c))

(* C4  Blocked calls resume: with concurrent single-item calls on one
   product and fair scheduling, every call eventually returns. *)
C4_BlockedCallsResume == \A c \in Calls : <>Returned(c)

\* What the committed quantity of p must be if exactly the calls that
\* returned success have taken effect.
QuantityAfterSuccesses(p) ==
    InitQuantity[p]
    - SumOver([c \in Calls |-> Demand(req[c].items, p)], {c \in Calls : Succeeded(c)})

(* C5  Atomicity: a CreateOrder call that failed at any step has left no
   order row and no order-item row in the committed tables, and the
   committed product quantities show the decrements of the successful calls
   only (nothing of a failed or unfinished call). *)
C5_Atomicity ==
    /\ \A c \in Calls :
          Failed(c) => /\ \A r \in orders : r.id # c
                       /\ \A r \in order_items : r.order_id # c
    /\ \A p \in Existing : products[p].quantity = QuantityAfterSuccesses(p)

\* A call failed on a later line item after an earlier item of it had been
\* decremented.
C5_Witness ==
    \E c \in Calls :
        /\ Failed(c) /\ Len(order[c].Items) >= 1
        /\ Len(order[c].Items) < Len(req[c].items)

\* Calls c and d are the two single-item requests of scenario C on product p.
ScenarioC(c, d, p) ==
    /\ c # d
    /\ Len(req[c].items) = 1 /\ Len(req[d].items) = 1
    /\ req[c].items[1].ProductID = p /\ req[d].items[1].ProductID = p
    /\ req[c].items[1].Quantity <= InitQuantity[p]
    /\ req[d].items[1].Quantity <= InitQuantity[p]
    /\ req[c].items[1].Quantity + req[d].items[1].Quantity > InitQuantity[p]

(* C6  Two concurrent single-item calls for one product, each within the
   stock but together beyond it: once both have returned (no database
   round trip having failed), exactly one has committed, the other failed
   with InsufficientStock, and the committed quantity is the stock minus
   the committed call's quantity. *)
C6_ExactlyOneWins ==
    \A p \in Existing : \A c, d \in Calls :
        (/\ ScenarioC(c, d, p)
         /\ Returned(c) /\ Returned(d)
         /\ ~Faulted(c) /\ ~Faulted(d))
        => \E w \in {c, d} :
              LET l == CHOOSE x \in {c, d} : x # w
              IN  /\ Succeeded(w)
                  /\ Failed(l) /\ ErrorsIs(ret[l].err, ErrInsufficientStock)
                  /\ products[p].quantity = InitQuantity[p] - req[w].items[1].Quantity

\* Scenario C has run to the end: one winner, one refused call.
C6_Witness ==
    \E p \in Existing : \E c, d \in Calls :
        /\ ScenarioC(c, d, p)
        /\ Succeeded(c)
        /\ Failed(d) /\ ErrorsIs(ret[d].err, ErrInsufficientStock)

(* C7  The quantity of every product is non-negative in every reachable
   state: in the committed table, in the uncommitted updates of every
   transaction, and in the product value every call holds. *)
C7_QuantityNonNegative ==
    /\ \A p \in Existing : products[p].quantity >= 0
    /\ \A c \in Calls :
          /\ \A p \in DOMAIN txWrites[c] : txWrites[c][p] >= 0
          /\ product[c].Quantity >= 0
          /\ \A p \in Existing : RowSeenBy(c, p).Quantity >= 0

\* A product has been sold out by a committed order.
C7_Witness ==
    \E p \in Existing :
        /\ products[p].quantity = 0
        /\ \E r \in order_items : r.product_id = p

\* Call c is a single uncontended request of quantity within the stock of
\* an existing product, and it has returned without a failed round trip.
ScenarioA(c) ==
    /\ Returned(c) /\ OthersIdle(c) /\ ~Faulted(c)
    /\ Len(req[c].items) = 1
    /\ req[c].items[1].ProductID \in Existing
    /\ req[c].items[1].Quantity <= InitQuantity[req[c].items[1].ProductID]

(* C8  A single uncontended CreateOrder with q <= Q succeeds: the returned
   order belongs to the given user and has exactly one item, with the
   requested product id and quantity and the product's price as
   price-at-purchase; the total is price*q and the committed quantity is
   Q - q. *)
C8_SingleOrderSucceeds ==
    \A c \in Calls :
        ScenarioA(c) =>
            LET item == req[c].items[1]
                p == item.ProductID
                o == ret[c].order
            IN  /\ ret[c].err = Nil
                /\ o # NoOrder
                /\ o.UserID = req[c].userID
                /\ Len(o.Items) = 1
                /\ o.Items[1].ProductID = p
                /\ o.Items[1].Quantity = item.Quantity
                /\ o.Items[1].PriceAtPurchase = InitPrice[p]
                /\ o.TotalAmount = InitPrice[p] * item.Quantity
                /\ products[p].quantity = InitQuantity[p] - item.Quantity

\* Scenario A has run, with a request for the whole stock.
C8_Witness ==
    \E c \in Calls :
        /\ ScenarioA(c) /\ Succeeded(c)
        /\ req[c].items[1].Quantity = InitQuantity[req[c].items[1].ProductID]

\* Number of locked reads among the first i database calls of c: the index
\* of the item the i-th call works on.
RECURSIVE ReadsUpTo(_, _)
ReadsUpTo(c, i) ==
    IF i = 0 THEN 0
    ELSE (IF trace[c][i].op = "FindByIDTx" THEN 1 ELSE 0) + ReadsUpTo(c, i - 1)

\* A locked read of call c returned a row with less stock than the item asks.
ExceedsStock(c) ==
    \E i \in 1..Len(trace[c]) :
        /\ trace[c][i].op = "FindByIDTx" /\ trace[c][i].err = Nil
        /\ trace[c][i].row.Quantity < req[c].items[ReadsUpTo(c, i)].Quantity

(* C9  A CreateOrder that requests more of a product than its locked read
   finds in stock fails with an error matching ErrInsufficientStock and a
   nil order; no order row of the call is created, its transaction never
   commits, and with no other call around every product reads back with
   its quantity unchanged. *)
C9_InsufficientStock ==
    \A c \in Calls :
        (Returned(c) /\ ExceedsStock(c)) =>
            /\ ErrorsIs(ret[c].err, ErrInsufficientStock)
            /\ ret[c].order = NoOrder
            /\ \A r \in orders : r.id # c
            /\ \A r \in order_items : r.order_id # c
            /\ txState[c] # "committed"
            /\ OthersIdle(c) => \A p \in Existing : products[p].quantity = InitQuantity[p]

\* Scenario B has run: a lone single-item request beyond the stock returned.
C9_Witness ==
    \E c \in Calls :
        /\ Returned(c) /\ ExceedsStock(c) /\ OthersIdle(c)
        /\ Len(req[c].items) = 1

(* C10  A multi-item CreateOrder whose later item names a missing product
   fails with ProductNotFound and the decrements of its earlier items are
   rolled back: once the call has returned, no decrement of it is left,
   neither committed nor pending in its transaction. *)
C10_NotFoundRollsBack ==
    \A c \in Calls :
        (/\ Returned(c)
         /\ \E i \in 2..Len(req[c].items) :
               /\ req[c].items[i].ProductID \in Missing
               /\ Len(order[c].Items) = i - 1
               /\ trace[c][Len(trace[c])].err = RepoErrProductNotFound)
        => /\ ErrorsIs(ret[c].err, ErrProductNotFound)
           /\ txWrites[c] = <<>>
           /\ txState[c] = "rolledback"
           /\ \A p \in Existing : products[p].quantity = QuantityAfterSuccesses(p)

\* The last database call of c.
LastCall(c) == trace[c][Len(trace[c])]
FailedCall(c, op) ==
    \E i \in 1..Len(trace[c]) : trace[c][i].op = op /\ trace[c][i].err # Nil

(* C11  CreateOrder returns a non-nil order exactly when it returns a nil
   error; it returns a nil error only when Commit succeeded; a failed
   Commit yields a non-nil error and a nil order. *)
C11_OrderIffNoError ==
    \A c \in Calls :
        Returned(c) =>
            /\ (ret[c].order # NoOrder) <=> (ret[c].err = Nil)
            /\ (ret[c].err = Nil) =>
                  /\ txState[c] = "committed"
                  /\ \E i \in 1..Len(trace[c]) :
                        trace[c][i].op = "Commit" /\ trace[c][i].err = Nil
            /\ FailedCall(c, "Commit") => (ret[c].err # Nil /\ ret[c].order = NoOrder)

\* A call whose Commit failed has returned.
C11_Witness == \E c \in Calls : Returned(c) /\ FailedCall(c, "Commit")

\* A statement of the call failed because the caller's deadline expired
\* (the driver's error for it is a database error like any other).
ExpiredDuringCall(c) ==
    \E op \in {"FindByIDTx", "UpdateTx", "CreateTx", "Commit"} : FailedCall(c, op)

(* C12  Cancellation: a call whose context expired while it waited for a
   row lock or executed a statement returns an error, and by the time it
   has returned its transaction is rolled back: none of its decrements is
   left, committed or pending, and it holds no row lock. *)
C12_CancellationRollsBack ==
    \A c \in Calls :
        (Returned(c) /\ ExpiredDuringCall(c)) =>
            /\ ret[c].err # Nil
            /\ txState[c] \in {"rolledback", "aborted"}
            /\ txWrites[c] = <<>>
            /\ ~HoldsLock(c)

\* The order rows' items, as a set.
ItemsOf(id) == {r \in order_items : r.order_id = id}

RECURSIVE SumAmount(_)
\* Sum of price_at_purchase * quantity over a set of order_items rows.
SumAmount(rows) ==
    IF rows = {} THEN 0
    ELSE LET r == CHOOSE x \in rows : TRUE
         IN  r.price_at_purchase * r.quantity + SumAmount(rows \ {r})

(* C14  For every committed order, total_amount is the sum over its items
   of price_at_purchase times quantity, whatever the number of items. *)
C14_TotalIsSumOfItems ==
    \A o \in orders : o.total_amount = SumAmount(ItemsOf(o.id))

\* A committed order with two items, one of them of quantity above one.
C14_Witness ==
    \E o \in orders :
        /\ Cardinality(ItemsOf(o.id)) = 2
        /\ \E r \in ItemsOf(o.id) : r.quantity > 1

\* The row the locked read of item i of call c returned.
LockedReadRow(c, i) ==
    LET j == CHOOSE k \in 1..Len(trace[c]) :
                 trace[c][k].op = "FindByIDTx" /\ ReadsUpTo(c, k) = i
    IN  trace[c][j].row

(* C13  Price snapshot: the price_at_purchase of every committed order item
   is the price in the row that order's locked read of the product returned,
   and no step of any operation (a product update included) changes or
   removes a committed order header or order item. *)
C13_PriceSnapshot ==
    /\ [](\A r \in order_items :
             r.price_at_purchase = LockedReadRow(r.order_id, r.id[2]).Price)
    /\ [][orders \subseteq orders' /\ order_items \subseteq order_items']_vars

\* A committed item of quantity above one whose product's price (and stock)
\* has been changed since.
C13_Witness ==
    \E r \in order_items :
        /\ r.quantity > 1
        /\ products[r.product_id].price # r.price_at_purchase
        /\ products[r.product_id].quantity = InitQuantity[r.product_id]

(* C16  Idempotent read: two successive FindByID calls of one order id that
   both return without error return the same order (header, set of items,
   total), whatever happened between them; and a step of FindByID changes
   nothing of the stores or of the CreateOrder calls. *)
C16_IdempotentRead ==
    [][/\ \A id \in ReadIDs :
             (found[id].err = Nil /\ found'[id].err = Nil) =>
                 found'[id].order = found[id].order
       /\ (rd' # rd \/ found' # found) => UNCHANGED orderVars]_vars

\* The response to the request of call c has been written by the handler
\* after CreateOrder returned an error.
FailureSurfaced(c) ==
    /\ http[c].stage = "responded"
    /\ Failed(c)

(* C17  The order endpoint surfaces a CreateOrder failure by its type:
   ProductNotFound as a client error with the message that products were not
   found (HTTP 400 Bad Request), InsufficientStock as a conflict (HTTP 409),
   every other failure as a server-side error (HTTP 500). *)
C17_FailureStatus ==
    \A c \in Calls :
        FailureSurfaced(c) =>
            /\ ErrorsIs(ret[c].err, ErrProductNotFound) => http[c].status = 400
            /\ ErrorsIs(ret[c].err, ErrInsufficientStock) => http[c].status = 409
            /\ (~ErrorsIs(ret[c].err, ErrProductNotFound)
                  /\ ~ErrorsIs(ret[c].err, ErrInsufficientStock)) => http[c].status = 500

(* C17 as first stated: ProductNotFound is answered with HTTP 404, as the
   product lookup endpoint answers it; InsufficientStock 409, others 500. *)
C17_NotFoundIs404 ==
    \A c \in Calls :
        FailureSurfaced(c) =>
            /\ ErrorsIs(ret[c].err, ErrProductNotFound) => http[c].status = 404
            /\ ErrorsIs(ret[c].err, ErrInsufficientStock) => http[c].status = 409
            /\ (~ErrorsIs(ret[c].err, ErrProductNotFound)
                  /\ ~ErrorsIs(ret[c].err, ErrInsufficientStock)) => http[c].status = 500

\* One request was answered after a product was not found, the other after
\* a shortage of stock.
C17_Witness ==
    \E c, d \in Calls :
        /\ FailureSurfaced(c) /\ ErrorsIs(ret[c].err, ErrProductNotFound)
        /\ FailureSurfaced(d) /\ ErrorsIs(ret[d].err, ErrInsufficientStock)

\* The token verifies under the HMAC secret and is valid.
Verifies(t) ==
    /\ t.wellFormed
    /\ t.alg \in HMACMethods /\ t.key = JWTSecret
    /\ ~t.expired

\* The header has the Bearer prefix and carries a verified, valid token
\* with a string sub claim.
Authorized(h) ==
    /\ h.prefix = "Bearer "
    /\ Verifies(h.token)
    /\ h.token.sub.type = "string"

\* The handler has been invoked for the request of call c.
HandlerInvoked(c) ==
    \/ http[c].stage \in {"handler", "service"}
    \/ http[c].stage = "responded" /\ http[c].status # 401

(* C18  The order handler is invoked only for requests whose Authorization
   header has the Bearer prefix and carries a token that verifies under the
   HMAC secret, is valid, and has a string sub claim; every other request is
   answered 401, and CreateOrder is not called for it. *)
C18_ProtectedEndpoint ==
    \A c \in Calls :
        /\ (HandlerInvoked(c) \/ pc[c] # "idle") => Authorized(http[c].header)
        /\ (http[c].stage # "received" /\ ~Authorized(http[c].header)) =>
              /\ http[c].stage = "responded" /\ http[c].status = 401
              /\ pc[c] = "idle" /\ trace[c] = <<>>

\* One request was refused for a forged signature while the other, with a
\* good token, got its order created.
C18_Witness ==
    \E c, d \in Calls :
        /\ http[c].stage = "responded" /\ http[c].status = 401
        /\ http[c].header.prefix = "Bearer " /\ http[c].header.token.key # JWTSecret
        /\ http[d].stage = "responded" /\ http[d].status = 201

(* C19  A Register call that ends while a user with its email exists (one
   that was there when it was called, or one another Register inserted
   meanwhile), no database round trip of it having failed, fails with
   ErrUserAlreadyExists and creates no user row. *)
C19_DuplicateEmailRejected ==
    [][\A r \in RegCalls :
          (/\ reg[r].pc # "done" /\ reg'[r].pc = "done"
           /\ \E u \in users : u.email = reg'[r].email
           /\ reg'[r].err # DbError)
          => (reg'[r].err = ErrUserAlreadyExists /\ users' = users)]_vars

\* The call was answered "invalid credentials" and nothing else.
Refused(l) ==
    /\ login[l].pc = "done"
    /\ login[l].token = NoToken
    /\ login[l].err = ErrInvalidCredentials

\* Some user has the email / has the email and that password.
Registered(email) == \E r \in RegCalls : reg[r].user # NoUser /\ reg[r].email = email
Matches(email, password) ==
    \E r \in RegCalls :
        reg[r].user # NoUser /\ reg[r].email = email /\ reg[r].password = password

(* C20  Login gives the same outcome, an empty token and
   ErrInvalidCredentials, for an unknown email and for a known email with a
   wrong password (the lookup not having failed); it returns a token only
   when a user has the email and the password matches. *)
C20_LoginOutcome ==
    \A l \in LoginCalls :
        login[l].pc = "done" =>
            /\ (~Matches(login[l].email, login[l].password)
                  /\ ~ErrorsIs(login[l].err, DbError)) => Refused(l)
            /\ login[l].token # NoToken =>
                  /\ Matches(login[l].email, login[l].password)
                  /\ login[l].err = Nil

\* One Login was refused for an email nobody has, another for a registered
\* email with the wrong password.
C20_Witness ==
    \E l, m \in LoginCalls :
        /\ Refused(l) /\ ~Registered(login[l].email)
        /\ Refused(m) /\ Registered(login[m].email)
        /\ ~Matches(login[m].email, login[m].password)

ProductSet(c) == {req[c].items[i].ProductID : i \in 1..Len(req[c].items)}
Disjoint(c, d) == c # d /\ ProductSet(c) \cap ProductSet(d) = {}

\* The call would commit if it ran alone against the initial stock.
WouldSucceedAlone(c) ==
    /\ ProductSet(c) \subseteq Existing
    /\ \A p \in Existing : Demand(req[c].items, p) <= InitQuantity[p]

(* C15  Two concurrent calls over disjoint product sets never wait on each
   other: the locked read of either is enabled whenever the call is at it.
   Once both have returned (no database round trip having failed), each has
   succeeded exactly if it would succeed alone, and the committed quantities
   and orders are the ones the two requests determine, whatever the
   interleaving. *)
C15_DisjointCallsIndependent ==
    \A c, d \in Calls :
        Disjoint(c, d) =>
            /\ (pc[c] = "find") => ENABLED FindByIDTx(c, FALSE)
            /\ (Returned(c) /\ Returned(d) /\ ~Faulted(c) /\ ~Faulted(d)) =>
                  /\ \A x \in {c, d} : Succeeded(x) <=> WouldSucceedAlone(x)
                  /\ {o.id : o \in orders} = {x \in {c, d} : WouldSucceedAlone(x)}
                  /\ \A p \in Existing :
                        products[p].quantity =
                           InitQuantity[p]
                           - SumOver([x \in Calls |-> Demand(req[x].items, p)],
                                     {x \in {c, d} : WouldSucceedAlone(x)})

\* A call is at its locked read while a call on other products holds a
\* row lock in a transaction that is still open.
C15_Witness ==
    \E c, d \in Calls :
        /\ Disjoint(c, d)
        /\ pc[c] = "find" /\ req[c].items[idx[c]].ProductID \in Existing
        /\ HoldsLock(d) /\ pc[d] \in {"update", "create", "commit"}

\* Call c made a locked read of p that returned the row, and its
\* transaction has neither committed nor rolled back since.
ReadAndOpen(c, p) ==
    /\ txState[c] = "open"
    /\ \E i \in 1..Len(trace[c]) :
          /\ trace[c][i].op = "FindByIDTx" /\ trace[c][i].arg = p
          /\ trace[c][i].err = Nil

\* The step is a locked read of p by call d that returns the row.
LockedReadReturns(d, p) ==
    /\ Len(trace'[d]) = Len(trace[d]) + 1
    /\ LET e == trace'[d][Len(trace'[d])]
       IN  e.op = "FindByIDTx" /\ e.arg = p /\ e.err = Nil

(* C21  Row-lock exclusion: from the return of a transaction's locked read
   of product P until that transaction commits or rolls back it holds P's
   row lock; meanwhile no other transaction's locked read of P returns and
   nothing but that transaction's own commit changes P's committed quantity.
   Hence at the quantity write the row still has the quantity the stock
   check saw. *)
C21_RowLockExclusion ==
    /\ [](\A c \in Calls, p \in Existing :
             /\ ReadAndOpen(c, p) => lock[p] = c
             /\ (pc[c] = "update" /\ product[c].ID = p) =>
                   RowSeenBy(c, p).Quantity
                      = product[c].Quantity + req[c].items[idx[c]].Quantity)
    /\ [][\A c \in Calls, p \in Existing :
             ReadAndOpen(c, p) =>
                /\ \A d \in Calls \ {c} : ~LockedReadReturns(d, p)
                /\ products'[p].quantity # products[p].quantity =>
                      (txState'[c] = "committed" /\ p \in DOMAIN txWrites[c])]_vars

\* A call is at its quantity write for a product while the other call is
\* at its locked read of the same product.
C21_Witness ==
    \E c, d \in Calls :
        /\ c # d
        /\ pc[c] = "update"
        /\ pc[d] = "find" /\ req[d].items[idx[d]].ProductID = product[c].ID

\* Call c holds the row lock of the first product of its list and is at
\* the locked read of its second product, whose lock call d holds.
HoldsFirstWaitsFor(c, d) ==
    /\ pc[c] = "find" /\ idx[c] = 2
    /\ lock[req[c].items[1].ProductID] = c
    /\ lock[req[c].items[2].ProductID] = d
    /\ txState[c] = "open"

\* Two calls with the same two products in opposite orders, each holding
\* its first and waiting for the other's.
LockOrderDeadlock(c, d) ==
    /\ c # d
    /\ Len(req[c].items) = 2 /\ Len(req[d].items) = 2
    /\ ProductSet(c) \subseteq Existing
    /\ req[c].items[1].ProductID = req[d].items[2].ProductID
    /\ req[c].items[2].ProductID = req[d].items[1].ProductID
    /\ req[c].items[1].ProductID # req[c].items[2].ProductID
    /\ HoldsFirstWaitsFor(c, d)
    /\ HoldsFirstWaitsFor(d, c)

(* C22  Lock-order deadlock: two concurrent calls whose lists name the same
   two products in opposite orders can come to hold the row lock of their
   first product each while waiting for the other's (the witness).  In that
   state neither locked read can return, and the calls stay so until a
   database round trip of one of them fails: nothing in the workflow
   orders the locks or backs off. *)
C22_LockOrderDeadlock ==
    /\ [](\A c, d \in Calls :
             LockOrderDeadlock(c, d) =>
                 /\ ~ENABLED FindByIDTx(c, FALSE)
                 /\ ~ENABLED FindByIDTx(d, FALSE))
    /\ [][\A c, d \in Calls :
             LockOrderDeadlock(c, d) =>
                 \/ LockOrderDeadlock(c, d)'
                 \/ \E x \in {c, d} :
                       /\ Len(trace'[x]) = Len(trace[x]) + 1
                       /\ trace'[x][Len(trace'[x])].err # Nil]_vars

\* The deadlock is reached.
C22_Witness ==
    \E c, d \in Calls : LockOrderDeadlock(c, d)

(* C23  Items are processed strictly in caller order: the k-th locked read
   of a call names the product of the k-th item of its list; each database
   call of the loop follows the pattern read item 1, write item 1, read
   item 2, write item 2, ... (a read is followed by the write of the same
   product before any further read); and the order the call builds and
   returns lists the items of the request in the request's order. *)
C23_CallerOrder ==
    \A c \in Calls :
        /\ \A i \in 1..Len(trace[c]) :
              /\ trace[c][i].op = "FindByIDTx" =>
                    /\ ReadsUpTo(c, i) <= Len(req[c].items)
                    /\ trace[c][i].arg = req[c].items[ReadsUpTo(c, i)].ProductID
                    /\ i > 1 /\ trace[c][i - 1].op \in {"Begin", "UpdateTx"}
              /\ trace[c][i].op = "UpdateTx" =>
                    /\ i > 1 /\ trace[c][i - 1].op = "FindByIDTx"
                    /\ trace[c][i - 1].err = Nil
                    /\ trace[c][i].arg = trace[c][i - 1].arg
        /\ Len(order[c].Items) <= Len(req[c].items)
        /\ \A i \in 1..Len(order[c].Items) :
              /\ order[c].Items[i].ProductID = req[c].items[i].ProductID
              /\ order[c].Items[i].Quantity = req[c].items[i].Quantity
        /\ Succeeded(c) =>
              /\ ret[c].order.Items = order[c].Items
              /\ Len(ret[c].order.Items) = Len(req[c].items)

\* A call for two different products, the second list-wise not the first
\* alphabetically, has returned its order.
C23_Witness ==
    \E c \in Calls :
        /\ Succeeded(c)
        /\ Len(req[c].items) = 2
        /\ req[c].items[1].ProductID = "B" /\ req[c].items[2].ProductID = "A"

\* The calls whose transaction has committed.
Committed == {c \in Calls : txState[c] = "committed"}

\* The quantity is the initial one less everything some set of committed
\* calls asked of the product: no decrement of an uncommitted call, and of
\* each committed call all decrements or none.
WholeCommittedCalls(p, quantity) ==
    \E S \in SUBSET Committed :
        quantity = InitQuantity[p]
                   - SumOver([x \in Calls |-> Demand(req[x].items, p)], S)

\* What a product read outside the transactions returned shows decrements
\* of committed calls only.
ProductReadsCommitted ==
    (seen.op = "GetProductByID" /\ seen.err = Nil) =>
        \A r \in seen.rows : WholeCommittedCalls(r.ID, r.Quantity)

\* The header an order read has got, or the order it returned, is of a
\* committed call.
OrderReadsCommitted ==
    /\ rd.pc = "items" =>
          (rd.id \in Committed /\ rd.header = OrderRow(order[rd.id]))
    /\ \A id \in ReadIDs :
          found[id].err = Nil =>
              /\ id \in Committed
              /\ found[id].order.TotalAmount = order[id].TotalAmount

(* C24  All-or-nothing visibility: a reader outside the transaction
   (ProductRepository.FindByID, OrderRepository.FindByID) never observes a
   quantity decrement, an order header or an order item of a call that has
   not committed; of an order that has committed it sees all decrements and
   all rows (for an order read that returns without error: the header and
   every item). *)
C24_AllOrNothingVisibility ==
    /\ ProductReadsCommitted
    /\ OrderReadsCommitted
    /\ \A id \in ReadIDs :
          found[id].err = Nil =>
              found[id].order.Items
                 = {order[id].Items[i] : i \in 1..Len(order[id].Items)}

\* The message CreateOrder puts before the error of a failed step.
StepMessage(op) ==
    IF op = "CreateTx" THEN "could not create order"
    ELSE "could not commit transaction"

(* C25  When the rollback attempt itself fails, the error CreateOrder
   returns is still the error of the step that failed (wrapped with the
   step's message), not the rollback's error and not nil; no order is
   returned; and the rollback failure is logged together with the original
   error. *)
C25_RollbackFailureLogged ==
    \A c \in Calls :
        (Returned(c) /\ FailedCall(c, "Rollback")) =>
            LET k == Len(trace[c])
                rollback == trace[c][k]
                step == trace[c][k - 1]
            IN  /\ rollback.op = "Rollback" /\ step.err # Nil
                /\ ret[c].err = Wrap(StepMessage(step.op), step.err)
                /\ ret[c].err # Nil /\ ret[c].err # rollback.err
                /\ ret[c].order = NoOrder
                /\ logged[c] = <<[rollback_error |-> rollback.err,
                                  original_error |-> step.err]>>

\* One call's rollback failed after a failed insert, the other's after a
\* failed commit.
C25_Witness ==
    \E c, d \in Calls :
        /\ Returned(c) /\ FailedCall(c, "Rollback") /\ FailedCall(c, "CreateTx")
        /\ Returned(d) /\ FailedCall(d, "Rollback") /\ FailedCall(d, "Commit")

(* C26  If Begin fails, CreateOrder returns an error (wrapping Begin's) and
   no order, and Begin is the only database call it makes: no locked read,
   no quantity write, no insert, no Commit and no Rollback; no transaction
   exists and nothing is logged. *)
C26_BeginFailure ==
    \A c \in Calls :
        (Len(trace[c]) >= 1 /\ trace[c][1].err # Nil) =>
            /\ trace[c][1].op = "Begin"
            /\ Len(trace[c]) = 1
            /\ Returned(c)
            /\ ret[c].order = NoOrder
            /\ ret[c].err = Wrap("could not begin transaction", trace[c][1].err)
            /\ txState[c] = "none" /\ txWrites[c] = <<>>
            /\ txOrders[c] = {} /\ txItems[c] = {}
            /\ logged[c] = <<>>

\* Begin failed for a call with two items while the other call committed.
C26_Witness ==
    \E c, d \in Calls :
        /\ Len(trace[c]) >= 1 /\ trace[c][1].err # Nil /\ Len(req[c].items) = 2
        /\ Succeeded(d)

\* The rows of the first n items of the order call c has built.
FirstItemRows(c, n) == {OrderItemRow(order'[c], i) : i \in 1..n}

(* C27  OrderRepository.CreateTx inserts the header before any item and
   then the items in list order.  When its k-th insert fails (1 being the
   header) it returns that error at once: the transaction then holds the
   header iff k > 1 and exactly the first k - 2 items, nothing later and
   nothing removed.  Without a failure it holds the header and every item,
   for an order with no items the header alone. *)
C27_CreateTxInserts ==
    [][\A c \in Calls : \A k \in 0..(Len(order[c].Items) + 1) :
          CreateTx(c, k) =>
             LET n == Len(order'[c].Items)
                 e == trace'[c][Len(trace'[c])]
             IN  /\ e.op = "CreateTx"
                 /\ (e.err = Nil) <=> (k = 0)
                 /\ k = 0 =>
                       /\ txOrders'[c] = {OrderRow(order'[c])}
                       /\ txItems'[c] = FirstItemRows(c, n)
                 /\ k = 1 => (txOrders'[c] = {} /\ txItems'[c] = {})
                 /\ k > 1 =>
                       /\ txOrders'[c] = {OrderRow(order'[c])}
                       /\ txItems'[c] = FirstItemRows(c, k - 2)
                       /\ Cardinality(txItems'[c]) = k - 2
                 /\ txItems'[c] # {} => txOrders'[c] # {}]_vars

\* CreateTx of a two-item order has failed at its second item: the header
\* and the first item are in the open transaction.
C27_Witness ==
    \E c \in Calls :
        /\ pc[c] = "rollback" /\ LastCall(c).op = "CreateTx"
        /\ Len(order[c].Items) = 2
        /\ txOrders[c] # {} /\ Cardinality(txItems[c]) = 1

\* The rows of table products whose id is among ids.
Present(ids) == {r \in ProductRows : r.ID \in ids}

(* C28  ProductRepository.FindByIDs (the query not having failed) returns
   NotFound exactly when none of the requested ids has a row; when at
   least one has, it returns exactly the rows of the requested ids that
   exist, and no error, even if other requested ids are missing. *)
C28_FindByIDs ==
    [][(seen' # seen /\ seen'.op = "FindByIDs" /\ seen'.err # DbError) =>
          /\ seen'.err = RepoErrProductNotFound <=> Present(seen'.ids) = {}
          /\ Present(seen'.ids) # {} =>
                /\ seen'.err = Nil
                /\ seen'.rows = Present(seen'.ids)
          /\ seen'.err # Nil => seen'.rows = {}]_vars

\* A lookup of an existing, a created and a missing id returned the two
\* rows without error.
C28_Witness ==
    /\ seen.op = "FindByIDs" /\ seen.err = Nil
    /\ seen.ids = {"A", "N", "X"}
    /\ {r.ID : r \in seen.rows} = {"A", "N"}

(* C30  Of the operations the services expose (Register, Login,
   CreateProduct, GetProductByID, CreateOrder) only the commit of a
   CreateOrder changes the quantity of an existing product or adds to the
   order tables (nothing removes from them); every step of the other
   operations leaves existing products and the order tables as they are. *)
C30_OnlyCommitMutates ==
    [][/\ (\/ products' # products
           \/ orders' # orders
           \/ order_items' # order_items) =>
              /\ \E c \in Calls : txState[c] = "open" /\ txState'[c] = "committed"
              /\ orders \subseteq orders' /\ order_items \subseteq order_items'
       /\ (userVars' # userVars \/ prodVars' # prodVars) =>
              UNCHANGED <<products, orders, order_items>>]_vars

\* An order has committed and taken stock, a user has registered and
\* logged in, and a created product has been looked up.
C30_Witness ==
    /\ \E c \in Calls, p \in Existing :
          Succeeded(c) /\ products[p].quantity < InitQuantity[p]
    /\ \E r \in RegCalls : reg[r].user # NoUser
    /\ \E l \in LoginCalls : login[l].token # NoToken
    /\ newProducts # {}
    /\ seen.op = "GetProductByID" /\ seen.err = Nil /\ seen.ids \subseteq NewIDs

\* The step is a database call of CreateOrder call c.
CallOf(c) == Len(trace'[c]) = Len(trace[c]) + 1

\* The step is a quantity update of call c that succeeded.
QuantityUpdated(c) ==
    /\ CallOf(c)
    /\ trace'[c][Len(trace'[c])].op = "UpdateTx"
    /\ trace'[c][Len(trace'[c])].err = Nil

(* C29  The transactional quantity update changes, inside its transaction,
   the quantity of the one product it names and nothing else: no other
   product's pending or committed quantity, and no committed row.  No step
   of a CreateOrder changes any product's price, and its commit changes the
   committed quantity of the products it updated only. *)
C29_QuantityOnly ==
    [][\A c \in Calls :
          /\ QuantityUpdated(c) =>
                LET p == product[c].ID
                IN  /\ DOMAIN txWrites'[c] = DOMAIN txWrites[c] \cup {p}
                    /\ txWrites'[c][p] = product[c].Quantity
                    /\ \A q \in DOMAIN txWrites[c] \ {p} :
                          txWrites'[c][q] = txWrites[c][q]
                    /\ \A d \in Calls \ {c} : txWrites'[d] = txWrites[d]
                    /\ products' = products
          /\ CallOf(c) =>
                \A q \in Existing :
                    /\ products'[q].price = products[q].price
                    /\ products'[q].quantity # products[q].quantity =>
                          (q \in DOMAIN txWrites[c] /\ txState'[c] = "committed")]_vars

\* A call's open transaction has updated the quantity of one product, whose
\* price had been changed before.
C29_Witness ==
    \E c \in Calls, p \in Existing :
        /\ txState[c] = "open"
        /\ DOMAIN txWrites[c] = {p}
        /\ products[p].price # InitPrice[p]

----------------------------------------------------------------------------
\* The committed header rows of the order of call c.
HeadersOf(id) == {o \in orders : o.id = id}

\* The committed item rows of order id are one row per line of the list, in
\* the products and quantities of the lines.
OneRowPerLine(id, items) ==
    /\ Cardinality(ItemsOf(id)) = Len(items)
    /\ \E f \in [1..Len(items) -> ItemsOf(id)] :
          /\ \A i, j \in 1..Len(items) : f[i] = f[j] => i = j
          /\ \A i \in 1..Len(items) :
                /\ f[i].product_id = items[i].ProductID
                /\ f[i].quantity = items[i].Quantity

\* Every committed item row has exactly one committed header.
ItemsHaveOneHeader ==
    \A r \in order_items : Cardinality(HeadersOf(r.order_id)) = 1

\* The committed order rows only grow: no step changes or removes one.
OrderRowsKept == orders \subseteq orders' /\ order_items \subseteq order_items'

(* C31  Each successful CreateOrder has created exactly one order header and
   exactly one item row per requested line; in every committed state each
   order-item row belongs to exactly one existing header; and no later
   operation changes or removes a committed header or item row. *)
C31_OrderStructure ==
    /\ [](\A c \in Calls :
             Succeeded(c) =>
                 /\ Cardinality(HeadersOf(c)) = 1
                 /\ OneRowPerLine(c, req[c].items))
    /\ []ItemsHaveOneHeader
    /\ [][OrderRowsKept]_vars

\* Two orders are committed, one of them with two lines, and the stock of a
\* product was changed by hand after the first commit.
C31_Witness ==
    /\ \A c \in Calls : Succeeded(c)
    /\ \E c \in Calls : Len(req[c].items) = 2 /\ Cardinality(ItemsOf(c)) = 2
    /\ \E p \in Existing : products[p].price # InitPrice[p]

----------------------------------------------------------------------------
\* The handler has decoded the body of the request of call c.
BodyDecoded(c) == HandlerInvoked(c) /\ http[c].stage # "handler"

\* The item list is empty or has a line whose quantity is not positive.
EmptyOrNonPositive(items) ==
    \/ Len(items) = 0
    \/ \E i \in 1..Len(items) : items[i].Quantity <= 0

\* CreateOrder has been invoked for call c.
ServiceInvoked(c) == http[c].stage = "service" \/ pc[c] # "idle" \/ trace[c] # <<>>

(* C32  The HTTP order handler never invokes CreateOrder with an empty item
   list or with a line whose quantity is not strictly positive: such a
   request is answered 400 and the service is not called for it; the items
   passed to the service are the request's items in the same order. *)
C32_ValidatedItems ==
    \A c \in Calls :
        /\ ServiceInvoked(c) =>
              /\ ~EmptyOrNonPositive(req[c].items)
              /\ Len(req[c].items) = Len(body[c])
              /\ \A i \in 1..Len(body[c]) :
                    /\ req[c].items[i].ProductID = body[c][i].ProductID
                    /\ req[c].items[i].Quantity = body[c][i].Quantity
        /\ (BodyDecoded(c) /\ EmptyOrNonPositive(body[c])) =>
              /\ http[c].stage = "responded" /\ http[c].status = 400
              /\ ~ServiceInvoked(c)

\* One request was refused for a line of quantity zero after a valid first
\* line; the other, with an item list in order, had its order created.
C32_Witness ==
    \E c, d \in Calls :
        /\ BodyDecoded(c) /\ Len(body[c]) = 2
        /\ body[c][1].Quantity > 0 /\ body[c][2].Quantity = 0
        /\ http[c].status = 400
        /\ http[d].stage = "responded" /\ http[d].status = 201
        /\ req[d].items = body[d]


----------------------------------------------------------------------------
\* The committed order-item rows of product p.
ItemsOfProduct(p) == {r \in order_items : r.product_id = p}

(* C33  Stock conservation: in every committed state reached by any
   interleaving of CreateOrder calls (positive quantities, no other writer),
   for each product the initial quantity equals the current quantity plus
   the sum of the quantities of that product over all committed order
   items. *)
C33_StockConservation ==
    \A p \in Existing :
        InitQuantity[p] = products[p].quantity + SumQuantity(ItemsOfProduct(p))

\* Both calls ordered the same product and succeeded: its stock has moved
\* into two committed order items.
C33_Witness ==
    \E p \in Existing :
        /\ \A c \in Calls : Succeeded(c) /\ Demand(req[c].items, p) > 0
        /\ products[p].quantity < InitQuantity[p]
        /\ Cardinality(ItemsOfProduct(p)) >= 2


----------------------------------------------------------------------------
\* The request of call c names one existing product in both of its two lines.
RepeatedProduct(c) ==
    /\ Len(req[c].items) = 2
    /\ req[c].items[1].ProductID = req[c].items[2].ProductID
    /\ req[c].items[1].ProductID \in Existing

\* The stock the first locked read of call c found (the call after Begin).
StockRead(c) == trace[c][2].row.Quantity

(* C34  Repeated product in one order: a CreateOrder whose item list names
   the same product P in two lines with quantities q1 and q2, no database
   round trip of it failing, succeeds exactly when q1 + q2 <= the stock of P
   it found; it then decrements P by q1 + q2 and records two separate items;
   otherwise it fails with InsufficientStock, records nothing, and the
   committed quantity of P is unchanged by it. *)
C34_RepeatedProduct ==
    \A c \in Calls :
        (RepeatedProduct(c) /\ Returned(c) /\ ~Faulted(c)) =>
            LET p == req[c].items[1].ProductID
                q1 == req[c].items[1].Quantity
                q2 == req[c].items[2].Quantity
            IN  /\ Succeeded(c) <=> q1 + q2 <= StockRead(c)
                /\ products[p].quantity = QuantityAfterSuccesses(p)
                /\ Succeeded(c) =>
                      /\ Demand(req[c].items, p) = q1 + q2
                      /\ Cardinality(ItemsOf(c)) = 2
                      /\ \E r, s \in ItemsOf(c) :
                            /\ r # s
                            /\ r.product_id = p /\ r.quantity = q1
                            /\ s.product_id = p /\ s.quantity = q2
                      /\ OthersIdle(c) =>
                            products[p].quantity = InitQuantity[p] - (q1 + q2)
                /\ ~Succeeded(c) =>
                      /\ ErrorsIs(ret[c].err, ErrInsufficientStock)
                      /\ ItemsOf(c) = {}
                      /\ OthersIdle(c) => products[p].quantity = InitQuantity[p]

\* One call bought a product in two lines; the other then asked for it in
\* two lines, passed its first line and failed on the second.
C34_Witness ==
    \E c, d \in Calls :
        /\ c # d
        /\ RepeatedProduct(c) /\ Succeeded(c)
        /\ RepeatedProduct(d) /\ Failed(d) /\ ~Faulted(d)
        /\ req[d].items[1].ProductID = req[c].items[1].ProductID
        /\ Len(order[d].Items) = 1


----------------------------------------------------------------------------
\* The positions of the database calls of kind op in the history of call c.
CallsOf(c, op) == {i \in 1..Len(trace[c]) : trace[c][i].op = op}

\* The i-th database call of c is a step that failed: it returned an error,
\* or it is a locked read that found less stock than its line asks for.
StepFailed(c, i) ==
    \/ trace[c][i].err # Nil
    \/ /\ trace[c][i].op = "FindByIDTx"
       /\ trace[c][i].row.Quantity < req[c].items[ReadsUpTo(c, i)].Quantity

(* C35  Step protocol of one CreateOrder call: Commit is attempted at most
   once, and only after every item was read and written successfully and
   the order insert succeeded; after the first failing step the call issues
   no further read, write, insert or commit (at most the one Rollback); and
   Rollback is never attempted on a transaction whose Commit succeeded. *)
C35_StepProtocol ==
    \A c \in Calls :
        /\ Cardinality(CallsOf(c, "Commit")) <= 1
        /\ \A i \in CallsOf(c, "Commit") :
              /\ \A j \in 1..(i - 1) : ~StepFailed(c, j)
              /\ Cardinality({j \in CallsOf(c, "FindByIDTx") : j < i}) = Len(req[c].items)
              /\ Cardinality({j \in CallsOf(c, "UpdateTx") : j < i}) = Len(req[c].items)
              /\ i > 1 /\ trace[c][i - 1].op = "CreateTx"
        /\ \A i \in 1..Len(trace[c]) :
              StepFailed(c, i) =>
                  /\ Len(trace[c]) <= i + 1
                  /\ \A j \in (i + 1)..Len(trace[c]) : trace[c][j].op = "Rollback"
        /\ \A i \in CallsOf(c, "Rollback") :
              \A j \in CallsOf(c, "Commit") : j < i => trace[c][j].err # Nil

\* One call went through all its steps for two lines and committed; the
\* other's commit failed and was followed by the rollback attempt.
C35_Witness ==
    \E c, d \in Calls :
        /\ Succeeded(c) /\ Len(req[c].items) = 2 /\ Len(trace[c]) = 7
        /\ Returned(d) /\ FailedCall(d, "Commit") /\ LastCall(d).op = "Rollback"


----------------------------------------------------------------------------
\* The user rows with the email; the Register calls that returned success
\* for it.
UsersWith(email) == {u \in users : u.email = email}
RegisteredBy(email) ==
    {r \in RegCalls : reg[r].pc = "done" /\ reg[r].err = Nil /\ reg[r].email = email}

(* C36  Email uniqueness under concurrency: for any interleaving of
   concurrent Register calls with the same email (each does a lookup and
   then an insert), at most one user row with that email exists in every
   reachable state and at most one of the calls returns success. *)
C36_EmailUnique ==
    \A email \in Emails :
        /\ Cardinality(UsersWith(email)) <= 1
        /\ Cardinality(RegisteredBy(email)) <= 1

\* Two Register calls with one email both found no user; the insert of one
\* succeeded and the insert of the other hit the unique constraint.
C36_Witness ==
    \E r, s \in RegCalls :
        /\ reg[r].pc = "done" /\ reg[s].pc = "done"
        /\ reg[r].email = reg[s].email
        /\ reg[r].err = Nil /\ reg[s].err = UniqueViolation
        /\ Cardinality(UsersWith(reg[r].email)) = 1

====
